---- MODULE Spec2Model ----
(***************************************************************************)
(* Model of the /api/scrape route of ncp (src/unnamed/part_001, the        *)
(* current version of src/app/api/scrape/route.ts): the verb handlers GET  *)
(* and POST, handle(), the bounded upload pool pMap() and the per-section  *)
(* worker, for one request against an object store.                        *)
(*                                                                         *)
(* JavaScript strings are sequences of one-character strings, so that      *)
(* indexOf, slice, startsWith, Number() and String() are computed.  A      *)
(* JavaScript value of unknown type is a tagged record (Undef, Str, Num,   *)
(* Arr).  An object is a record holding exactly the fields that are set.   *)
(***************************************************************************)
EXTENDS Integers, Sequences, FiniteSets, TLC

\* ------------------------------------------------------------ bounds
\* longest upstream section list drawn from SectionSet
MaxLen == 2
\* largest UPLOAD_CONCURRENCY configured
MaxConc == 2
\* longest list of metadata-only sections (reaches past the 1..12 range)
MaxPlain == 13
\* longest upstream section list drawn from RaceSet
MaxRace == 3

\* ------------------------------------------------------------ JS values
Undef == [t |-> "undefined"]
Null == [t |-> "null"]
NaN == [t |-> "NaN"]
Str(s) == [t |-> "string", v |-> s]
Num(n) == [t |-> "number", v |-> n]
Arr(a) == [t |-> "array", v |-> a]

\* JavaScript truthiness (the operand of ||, !, if)
Truthy(x) ==
  CASE x.t = "undefined" -> FALSE
    [] x.t = "null" -> FALSE
    [] x.t = "NaN" -> FALSE
    [] x.t = "string" -> x.v # <<>>
    [] x.t = "number" -> x.v # 0
    [] OTHER -> TRUE

\* a || b
Or(a, b) == IF Truthy(a) THEN a ELSE b

IsString(x) == x.t = "string"
IsArray(x) == x.t = "array"

\* ------------------------------------------------------------ strings
DigitChars == <<"0", "1", "2", "3", "4", "5", "6", "7", "8", "9">>
IsDigit(c) == \E d \in 1..10 : DigitChars[d] = c
DigitVal(c) == (CHOOSE d \in 1..10 : DigitChars[d] = c) - 1
Letters ==
  {"a", "b", "c", "d", "e", "f", "g", "h", "i", "j", "k", "l", "m", "n", "o",
   "p", "q", "r", "s", "t", "u", "v", "w", "x", "y", "z"}

\* String.prototype.indexOf(c): 0-based, -1 when absent
IndexOf(s, c) ==
  IF \E p \in 1..Len(s) : s[p] = c
  THEN (CHOOSE p \in 1..Len(s) : s[p] = c /\ \A q \in 1..(p - 1) : s[q] # c) - 1
  ELSE -1

\* String.prototype.slice(from) and slice(from, to), 0-based, 0 <= from
Slice(s, from) == SubSeq(s, from + 1, Len(s))
Slice2(s, from, to) == SubSeq(s, from + 1, IF to < Len(s) THEN to ELSE Len(s))

StartsWith(s, p) == Len(s) >= Len(p) /\ SubSeq(s, 1, Len(p)) = p

\* String(n) of an integer
RECURSIVE NatToStr(_)
NatToStr(n) ==
  IF n < 10 THEN <<DigitChars[n + 1]>>
  ELSE NatToStr(n \div 10) \o <<DigitChars[(n % 10) + 1]>>
NumToStr(n) == IF n < 0 THEN <<"-">> \o NatToStr(0 - n) ELSE NatToStr(n)

RECURSIVE DigitsVal(_, _)
DigitsVal(s, acc) ==
  IF s = <<>> THEN acc ELSE DigitsVal(Tail(s), acc * 10 + DigitVal(Head(s)))

AllDigits(s) == s # <<>> /\ \A p \in 1..Len(s) : IsDigit(s[p])

\* Number(s) of a string of the model's alphabet: "" is 0, a decimal integer
\* is its value, anything else NaN
Number(s) ==
  IF s = <<>> THEN Num(0)
  ELSE IF AllDigits(s) THEN Num(DigitsVal(s, 0))
  ELSE IF Head(s) = "-" /\ AllDigits(Tail(s)) THEN Num(0 - DigitsVal(Tail(s), 0))
  ELSE NaN

\* String(t).padStart(2, "0")
PadStart2(s) == IF Len(s) < 2 THEN <<"0">> \o s ELSE s

\* String.prototype.trim(), the model's only whitespace being " "
RECURSIVE TrimLeft(_)
TrimLeft(s) == IF s # <<>> /\ Head(s) = " " THEN TrimLeft(Tail(s)) ELSE s
RECURSIVE TrimRight(_)
TrimRight(s) ==
  IF s # <<>> /\ s[Len(s)] = " " THEN TrimRight(SubSeq(s, 1, Len(s) - 1)) ELSE s
Trim(s) == TrimRight(TrimLeft(s))

\* String.prototype.split(","): the list of the pieces between commas
RECURSIVE Split(_, _)
Split(s, c) ==
  IF IndexOf(s, c) < 0 THEN <<s>>
  ELSE <<Slice2(s, 0, IndexOf(s, c))>> \o Split(Slice(s, IndexOf(s, c) + 1), c)

\* Array.prototype.filter(Boolean) on a list of strings
RECURSIVE FilterNonEmpty(_)
FilterNonEmpty(xs) ==
  IF xs = <<>> THEN <<>>
  ELSE (IF Head(xs) # <<>> THEN <<Head(xs)>> ELSE <<>>) \o FilterNonEmpty(Tail(xs))

\* Array.prototype.filter(x => typeof x === "string"), unwrapped
RECURSIVE FilterStrings(_)
FilterStrings(xs) ==
  IF xs = <<>> THEN <<>>
  ELSE (IF IsString(Head(xs)) THEN <<Head(xs).v>> ELSE <<>>) \o FilterStrings(Tail(xs))

Includes(xs, x) == \E p \in 1..Len(xs) : xs[p] = x

Min(a, b) == IF a < b THEN a ELSE b
Max(a, b) == IF a > b THEN a ELSE b

\* ------------------------------------------------------------ literals
S_http == <<"h", "t", "t", "p">>
S_https == <<"h", "t", "t", "p", "s">>
S_httpsPrefix == <<"h", "t", "t", "p", "s", ":", "/", "/">>
S_sep == <<":", "/", "/">>
S_null == <<"n", "u", "l", "l">>
S_one == <<"1">>
S_domain == <<"d", "o", "m", "a", "i", "n">>
S_max == <<"m", "a", "x">>
S_raw == <<"r", "a", "w">>
S_b64 == <<"b", "6", "4">>
S_ping == <<"p", "i", "n", "g">>
S_url == <<"u", "r", "l">>
S_vw == <<"v", "w">>
S_jobs == <<"j", "o", "b", "s", "/">>
S_section == <<"s", "e", "c", "t", "i", "o", "n", "_">>
S_tile == <<"/", "t", "i", "l", "e", "_">>
S_jpg == <<".", "j", "p", "g">>
S_apiImages == <<"/", "a", "p", "i", "/", "i", "m", "a", "g", "e", "s", "/">>
S_imageJpeg == <<"i", "m", "a", "g", "e", "/", "j", "p", "e", "g">>
S_imageWebp == <<"i", "m", "a", "g", "e", "/", "w", "e", "b", "p">>

\* ------------------------------------------------------------ environment
\* process.env: a variable is a string, <<>> when unset or empty (both falsy)
ALLOWED_ORIGINS == <<"h", "t", "t", "p", "s", ":", "/", "/", "a", "p", "p", ".", "t", "e", "s", "t", ",", " ", "h", "t", "t", "p", "s", ":", "/", "/", "b", ".", "t", "e", "s", "t", ",">>
\* const ORIGINS = (ALLOWED_ORIGINS || "").split(",").map(trim).filter(Boolean)
ORIGINS ==
  LET parts == Split(ALLOWED_ORIGINS, ",")
  IN FilterNonEmpty([p \in 1..Len(parts) |-> Trim(parts[p])])

\* NEXT_PUBLIC_BASE_PATH || ""
BasePath == <<"/", "n", "c", "p">>

\* Number(process.env.WORKER_MAX || 6)
FallbackWorkerMax == 6
DEFAULT_WORKER_MAX(e) ==
  Number(IF e.WORKER_MAX # <<>> THEN e.WORKER_MAX ELSE NumToStr(FallbackWorkerMax))
\* Number(process.env.MAX_SECTIONS || DEFAULT_WORKER_MAX)
DEFAULT_MAX_SECTIONS(e) ==
  IF e.MAX_SECTIONS # <<>> THEN Number(e.MAX_SECTIONS) ELSE DEFAULT_WORKER_MAX(e)
\* Number(process.env.UPLOAD_CONCURRENCY || 2)
FallbackConcurrency == 2
UPLOAD_CONCURRENCY(e) ==
  Number(IF e.UPLOAD_CONCURRENCY # <<>> THEN e.UPLOAD_CONCURRENCY
         ELSE NumToStr(FallbackConcurrency))

\* ------------------------------------------------------------ tiny utils
\* cors(o)["access-control-allow-origin"]; o is Undef (no header) or Str
cors(o) == IF Truthy(o) /\ Includes(ORIGINS, o.v) THEN o.v ELSE S_null

\* the URL parser (new URL(s)) on strings over lower-case letters, digits and
\* . - _ : / and " "; [ok |-> FALSE] is the TypeError it throws
SchemeChar(c) == c \in Letters \/ IsDigit(c) \/ c \in {"+", "-", "."}
HostChar(c) == c \in Letters \/ IsDigit(c) \/ c \in {".", "-", "_"}
RECURSIVE StripSlashes(_)
StripSlashes(s) == IF s # <<>> /\ Head(s) = "/" THEN StripSlashes(Tail(s)) ELSE s
DefaultPort(scheme) == IF scheme = S_http THEN 80 ELSE 443
MaxPort == 65535
ParseURL(s) ==
  LET ci == IndexOf(s, ":")
      scheme == Slice2(s, 0, ci)
      rest == StripSlashes(Slice(s, ci + 1))
      si == IndexOf(rest, "/")
      auth == IF si < 0 THEN rest ELSE Slice2(rest, 0, si)
      pi == IndexOf(auth, ":")
      host == IF pi < 0 THEN auth ELSE Slice2(auth, 0, pi)
      port == IF pi < 0 THEN <<>> ELSE Slice(auth, pi + 1)
      portOk == port = <<>> \/ (AllDigits(port) /\ DigitsVal(port, 0) <= MaxPort)
      shown == IF port = <<>> \/ DigitsVal(port, 0) = DefaultPort(scheme)
               THEN <<>> ELSE <<":">> \o NumToStr(DigitsVal(port, 0))
  IN IF ci < 1 \/ ~(Head(s) \in Letters)
        \/ ~(\A p \in 1..ci : SchemeChar(s[p]))
     THEN [ok |-> FALSE]
     ELSE IF scheme \in {S_http, S_https}
     THEN IF host = <<>> \/ ~(\A p \in 1..Len(host) : HostChar(host[p])) \/ ~portOk
          THEN [ok |-> FALSE]
          ELSE [ok |-> TRUE, protocol |-> scheme \o <<":">>,
                origin |-> scheme \o S_sep \o host \o shown]
     ELSE IF \E p \in 1..Len(s) : s[p] = " "
     THEN [ok |-> FALSE]
     ELSE [ok |-> TRUE, protocol |-> scheme \o <<":">>, origin |-> S_null]

\* norm(input): [ok |-> TRUE, origin] or [ok |-> FALSE] when it throws (the
\* URL parser's TypeError, or Error("bad protocol"))
norm(input) ==
  LET u == ParseURL(IF StartsWith(input, S_http) THEN input ELSE S_httpsPrefix \o input)
  IN IF ~u.ok THEN [ok |-> FALSE]
     ELSE IF u.protocol \notin {S_http \o <<":">>, S_https \o <<":">>} THEN [ok |-> FALSE]
     ELSE [ok |-> TRUE, origin |-> u.origin]

ClampLo == 1
ClampHi == 12
\* clamp(n, lo, hi) = Math.max(lo, Math.min(hi, n))
clamp(n, lo, hi) == Max(lo, Min(hi, n))

\* Buffer.from(b64, "base64"): characters outside the alphabet are skipped,
\* decoding stops at "="; the bytes are the whole octets of the 6-bit groups
B64Alphabet ==
  <<"A", "B", "C", "D", "E", "F", "G", "H", "I", "J", "K", "L", "M", "N", "O", "P",
    "Q", "R", "S", "T", "U", "V", "W", "X", "Y", "Z", "a", "b", "c", "d", "e", "f",
    "g", "h", "i", "j", "k", "l", "m", "n", "o", "p", "q", "r", "s", "t", "u", "v",
    "w", "x", "y", "z", "0", "1", "2", "3", "4", "5", "6", "7", "8", "9", "+", "/">>
B64Val(c) == (CHOOSE p \in 1..Len(B64Alphabet) : B64Alphabet[p] = c) - 1
RECURSIVE B64Decode(_, _, _)
B64Decode(s, acc, bits) ==
  IF s = <<>> \/ Head(s) = "=" THEN <<>>
  ELSE IF ~Includes(B64Alphabet, Head(s)) THEN B64Decode(Tail(s), acc, bits)
  ELSE LET a == acc * 64 + B64Val(Head(s))
           b == bits + 6
       IN IF b >= 8
          THEN <<a \div (2 ^ (b - 8))>> \o B64Decode(Tail(s), a % (2 ^ (b - 8)), b - 8)
          ELSE B64Decode(Tail(s), a, b)

Bytes(b) == [t |-> "bytes", v |-> b]
\* safeDataUrlToBytes(maybeDataUrl): Null or the decoded bytes
safeDataUrlToBytes(d) ==
  IF ~IsString(d) THEN Null
  ELSE IF IndexOf(d.v, ",") < 0 THEN Null
  ELSE Bytes(B64Decode(Slice(d.v, IndexOf(d.v, ",") + 1), 0, 0))
IsBytes(b) == b.t = "bytes"

\* safeBase64FromDataUrl(maybeDataUrl): Null or the text after the first comma
safeBase64FromDataUrl(d) ==
  IF ~IsString(d) THEN Null
  ELSE IF IndexOf(d.v, ",") >= 0 THEN Str(Slice(d.v, IndexOf(d.v, ",") + 1)) ELSE Null

\* ------------------------------------------------------------ URLSearchParams
\* a list of <<name, value>> pairs
RECURSIVE Get(_, _)
Get(ps, k) ==
  IF ps = <<>> THEN Null
  ELSE IF Head(ps)[1] = k THEN Str(Head(ps)[2]) ELSE Get(Tail(ps), k)
RECURSIVE Without(_, _)
Without(ps, k) ==
  IF ps = <<>> THEN <<>>
  ELSE (IF Head(ps)[1] = k THEN <<>> ELSE <<Head(ps)>>) \o Without(Tail(ps), k)
\* set(k, v): the first pair named k takes the value and the others go, or
\* the pair is appended
Set(ps, k, v) ==
  IF \E p \in 1..Len(ps) : ps[p][1] = k
  THEN LET f == CHOOSE p \in 1..Len(ps) :
                  ps[p][1] = k /\ \A q \in 1..(p - 1) : ps[q][1] # k
       IN SubSeq(ps, 1, f - 1) \o <<<<k, v>>>> \o Without(SubSeq(ps, f + 1, Len(ps)), k)
  ELSE Append(ps, <<k, v>>)


\* ------------------------------------------------------------ sections
\* an object literal: the fields that are set
EmptyObj == [f \in {} |-> Undef]
Field(name, present, val) == IF present THEN name :> val ELSE EmptyObj

\* cleanSectionMeta(s): the whitelisted metadata, each field only when set
BboxLen == 4
cleanSectionMeta(s) ==
  Field("id", Truthy(s.id), s.id.v)
    @@ Field("role", Truthy(s.role), s.role.v)
    @@ Field("bbox", IsArray(s.bbox), Slice2(s.bbox.v, 0, BboxLen))
    @@ Field("confidence", s.confidence.t = "number", s.confidence.v)
    @@ Field("label", Truthy(s.label), s.label.v)

\* const safeId = s.id || `section_${idx}`
safeId(s, idx) == IF Truthy(s.id) THEN s.id.v ELSE S_section \o NumToStr(idx)

\* `jobs/${jobId}/${safeId}/tile_${String(t).padStart(2, "0")}.jpg`
tileKey(jobId, sid, t) ==
  S_jobs \o jobId \o <<"/">> \o sid \o S_tile \o PadStart2(NumToStr(t)) \o S_jpg
\* `jobs/${jobId}/${safeId}.jpg`
imageKey(jobId, sid) == S_jobs \o jobId \o <<"/">> \o sid \o S_jpg

\* forced.replace(/\/+$/, "")
RECURSIVE StripTrailingSlashes(_)
StripTrailingSlashes(s) ==
  IF s # <<>> /\ s[Len(s)] = "/" THEN StripTrailingSlashes(SubSeq(s, 1, Len(s) - 1))
  ELSE s
\* publicOrigin(req)
publicOrigin(e, r) ==
  IF e.PUBLIC_SITE_ORIGIN # <<>> THEN StripTrailingSlashes(e.PUBLIC_SITE_ORIGIN)
  ELSE Or(r.xfProto, Str(S_https)).v \o S_sep \o Or(r.xfHost, Str(r.host)).v

\* buildUrl(key); c holds handle's constants
buildUrl(c, key) ==
  LET relativeUrl == BasePath \o S_apiImages \o key
  IN IF c.absolute THEN c.siteOrigin \o relativeUrl ELSE relativeUrl

\* the base64 of the tiles, derived from the data URLs
RECURSIVE DerivedB64s(_)
DerivedB64s(imgs) ==
  IF imgs = <<>> THEN <<>>
  ELSE (IF Truthy(safeBase64FromDataUrl(Head(imgs)))
        THEN <<safeBase64FromDataUrl(Head(imgs)).v>> ELSE <<>>)
       \o DerivedB64s(Tail(imgs))

\* const out = { ...meta, images: urls } and its images_b64
tiledOut(c, s, urls) ==
  cleanSectionMeta(s) @@ ("images" :> urls)
    @@ (IF ~c.includeB64 THEN EmptyObj
        ELSE IF IsArray(s.images_b64) /\ s.images_b64.v # <<>>
        THEN "images_b64" :> FilterStrings(s.images_b64.v)
        ELSE Field("images_b64", DerivedB64s(s.images.v) # <<>>, DerivedB64s(s.images.v)))
\* const out = { ...meta, image: url } and its image_b64
singleOut(c, s, url) ==
  cleanSectionMeta(s) @@ ("image" :> url)
    @@ (IF ~c.includeB64 THEN EmptyObj
        ELSE IF IsString(s.image_b64) THEN "image_b64" :> s.image_b64.v
        ELSE Field("image_b64", Truthy(safeBase64FromDataUrl(s.image)),
                   safeBase64FromDataUrl(s.image).v))
\* nothing valid to persist: const out = { ...meta } and the base64 passed through
plainOut(c, s) ==
  cleanSectionMeta(s)
    @@ (IF ~c.includeB64 THEN EmptyObj
        ELSE Field("image_b64", IsString(s.image_b64), s.image_b64.v)
             @@ Field("images_b64", IsArray(s.images_b64), FilterStrings(s.images_b64.v)))

\* ------------------------------------------------------------ the section worker
\* The worker of one section runs from one await to the next.  Its position is
\* [st |-> "put", key, bytes, t, urls]: bucket.put(key, bytes) issued and
\* awaited (t the tile, -1 for a single image), or
\* [st |-> "returned", out]: the worker has returned out.
NoTile == 0 - 1
AtPut(key, bytes, t, urls) ==
  [st |-> "put", key |-> key, bytes |-> bytes, t |-> t, urls |-> urls, out |-> EmptyObj]
Returned(out) ==
  [st |-> "returned", key |-> <<>>, bytes |-> <<>>, t |-> NoTile, urls |-> <<>>, out |-> out]

\* for (let t = ...; t < s.images.length; t++) up to the next bucket.put
RECURSIVE tileLoopByCount(_, _, _, _, _)
tileLoopByCount(c, s, idx, t, urls) ==
  IF t >= Len(s.images.v) THEN Returned(tiledOut(c, s, urls))
  ELSE IF ~IsBytes(safeDataUrlToBytes(s.images.v[t + 1]))
  THEN tileLoopByCount(c, s, idx, t + 1, urls)
  ELSE AtPut(tileKey(c.jobId, safeId(s, idx), Len(urls)),
             safeDataUrlToBytes(s.images.v[t + 1]).v, t, urls)
RECURSIVE tileLoop(_, _, _, _, _)
tileLoop(c, s, idx, t, urls) ==
  IF t >= Len(s.images.v) THEN Returned(tiledOut(c, s, urls))
  ELSE IF ~IsBytes(safeDataUrlToBytes(s.images.v[t + 1]))
  THEN tileLoop(c, s, idx, t + 1, urls)
  ELSE AtPut(tileKey(c.jobId, safeId(s, idx), t),
             safeDataUrlToBytes(s.images.v[t + 1]).v, t, urls)

\* async (s, idx) => { ... } from its call to its first await or its return
workerStart(c, s, idx) ==
  IF IsArray(s.images) /\ s.images.v # <<>> THEN tileLoop(c, s, idx, 0, <<>>)
  ELSE IF IsBytes(safeDataUrlToBytes(s.image))
  THEN AtPut(imageKey(c.jobId, safeId(s, idx)), safeDataUrlToBytes(s.image).v, NoTile, <<>>)
  ELSE Returned(plainOut(c, s))

\* the worker from the resolution of its bucket.put to its next await or return
workerAfterPut(c, s, idx, w) ==
  IF w.t # NoTile THEN tileLoop(c, s, idx, w.t + 1, Append(w.urls, buildUrl(c, w.key)))
  ELSE Returned(singleOut(c, s, buildUrl(c, w.key)))


\* ------------------------------------------------------------ state
VARIABLES
  env,       \* process.env of the deployment
  req,       \* the request: method, Origin header, query, JSON body, host headers
  upstream,  \* what the sectionizer Worker answers to this request
  bucket,    \* whether env.CLOUD_FILES is bound
  pc,        \* "start", "fetch" (await fetch), "pmap" (await pMap), "responded", "thrown"
  resp,      \* <<>> or <<the Response the handler returned>>
  loc,       \* handle's constants once it runs
  sent,      \* the query of each request made to the Worker
  i,         \* pMap: the shared cursor
  ret,       \* pMap: the output array
  runners,   \* pMap: the runners' positions
  puts,      \* every bucket.put issued, in order
  store,     \* the object store: key -> [body, contentType]
  ireq,      \* the image request: ctx.params.key, or NoImageRequest
  iresp      \* <<>> or <<the Response the image endpoint returned>>

vars ==
  <<env, req, upstream, bucket, pc, resp, loc, sent, i, ret, runners, puts, store, ireq, iresp>>
poolVars == <<i, ret, runners, puts, store>>
inputVars == <<env, req, upstream, bucket, ireq>>

\* new Array(n): n empty slots
Hole == [t |-> "empty"]

\* ------------------------------------------------------------ responses
Response(status, ctype, h, body) ==
  [status |-> status, ctype |-> ctype, acao |-> cors(h), body |-> body]
JsonType == "application/json"
ErrorBody(msg) == [kind |-> "error", error |-> msg]
\* the body of the Worker's response, passed on as it came
Proxied(body) == [kind |-> "upstream", payload |-> body]

Respond(r) == resp' = <<r>> /\ pc' = "responded"

\* ------------------------------------------------------------ handle, to its fetch
\* for (const [k, v] of u.searchParams) { if (k === "domain") continue; set(k, v) }
RECURSIVE forward(_, _)
forward(w, q) ==
  IF q = <<>> THEN w
  ELSE IF Head(q)[1] = S_domain THEN forward(w, Tail(q))
  ELSE forward(Set(w, Head(q)[1], Head(q)[2]), Tail(q))

\* const workerMax = clamp(qMax || DEFAULT_WORKER_MAX, 1, 12)
workerMaxOf(e, q) ==
  clamp(Or(Number(Or(Get(q, S_max), Str(<<>>)).v), DEFAULT_WORKER_MAX(e)).v,
        ClampLo, ClampHi)
\* const maxSections = clamp(Number(MAX_SECTIONS || DEFAULT_MAX_SECTIONS || workerMax), 1, workerMax)
maxSectionsOf(e, q) ==
  clamp(IF e.MAX_SECTIONS # <<>> THEN Number(e.MAX_SECTIONS).v
        ELSE Or(DEFAULT_MAX_SECTIONS(e), Num(workerMaxOf(e, q))).v,
        ClampLo, workerMaxOf(e, q))

\* the Worker URL's query: url, the forwarded parameters, max when it lacks one
workerQuery(e, q, origin) ==
  LET w == forward(Set(<<>>, S_url, origin), q)
  IN IF ~Truthy(Get(w, S_max)) THEN Set(w, S_max, NumToStr(workerMaxOf(e, q))) ELSE w

\* const raw = u.searchParams.get("raw") === "1"
rawIgnored(q) == FALSE
rawOf(q) == Get(q, S_raw) = Str(S_one)

\* handle(origin, req, h) from its call to `await fetch(...)`
handleStart(origin) ==
  /\ loc' = [origin |-> origin,
             raw |-> rawOf(req.query),
             workerMax |-> workerMaxOf(env, req.query),
             maxSections |-> maxSectionsOf(env, req.query),
             includeB64 |-> Get(req.query, S_b64) = Str(S_one)]
  /\ sent' = Append(sent, workerQuery(env, req.query, origin))
  /\ pc' = "fetch"
  /\ UNCHANGED resp

\* ------------------------------------------------------------ HTTP verbs
\* export async function GET(req)
GET ==
  /\ pc = "start"
  /\ req.method = "GET"
  /\ LET h == req.origin
         q == Get(req.query, S_domain)
     IN IF Get(req.query, S_ping) = Str(S_one)
        THEN Respond(Response(200, JsonType, h, [kind |-> "ping"])) /\ UNCHANGED <<loc, sent>>
        ELSE IF ~Truthy(q)
        THEN Respond(Response(400, "", h, [kind |-> "text", text |-> "Missing domain"]))
             /\ UNCHANGED <<loc, sent>>
        ELSE IF ~norm(q.v).ok
        THEN pc' = "thrown" /\ UNCHANGED <<resp, loc, sent>>
        ELSE handleStart(norm(q.v).origin)
  /\ UNCHANGED <<inputVars, iresp, poolVars>>

\* export async function POST(req)
originAllowed(h) == Truthy(h) /\ Includes(ORIGINS, h.v)
POST ==
  /\ pc = "start"
  /\ req.method = "POST"
  /\ LET h == req.origin
         domain == IF req.body.t = "object" THEN req.body.domain ELSE Undef
     IN IF ~originAllowed(h)
        THEN Respond(Response(403, JsonType, h, ErrorBody("Origin not allowed")))
             /\ UNCHANGED <<loc, sent>>
        ELSE IF ~Truthy(domain)
        THEN Respond(Response(400, JsonType, h, ErrorBody("Missing domain")))
             /\ UNCHANGED <<loc, sent>>
        ELSE IF ~IsString(domain) \/ ~norm(domain.v).ok
        THEN pc' = "thrown" /\ UNCHANGED <<resp, loc, sent>>
        ELSE handleStart(norm(domain.v).origin)
  /\ UNCHANGED <<inputVars, iresp, poolVars>>


\* ------------------------------------------------------------ pMap
Done == [st |-> "done"]
Failed == [st |-> "failed"]
PutRecord(w, cur) == [key |-> w.key, bytes |-> w.bytes, idx |-> cur, t |-> w.t]

\* new Array(Math.min(limit, items.length)): the number of runners
runnerCountUnbounded(limit, len) == len
runnerCount(limit, len) == Min(limit, len)

\* one runner, from the test of its while loop to its next await:
\*   while (i < items.length) { const cur = i++; ret[cur] = await worker(items[cur], cur); }
\* P is the pool [i, runners, puts]
runnerLoop(c, list, P, k) ==
  IF P.i < Len(list)
  THEN LET cur == P.i
           w == workerStart(c, list[cur + 1], cur)
       IN [i |-> cur + 1,
           runners |-> [P.runners EXCEPT ![k] = [cur |-> cur] @@ w],
           puts |-> IF w.st = "put" THEN Append(P.puts, PutRecord(w, cur)) ELSE P.puts]
  ELSE [P EXCEPT !.runners[k] = Done]

\* .map(async () => {...}): the runners k..n start one after the other, each
\* running to its first await before the next starts
RECURSIVE startRunners(_, _, _, _, _)
startRunners(c, list, n, k, P) ==
  IF k > n THEN P ELSE startRunners(c, list, n, k + 1, runnerLoop(c, list, P, k))

\* ------------------------------------------------------------ handle, after its fetch
JobIds == {<<"j", "1">>}
\* wres.ok: the status is in the range 200-299
IsOkBelow500(status) == 200 <= status /\ status <= 499
IsOk(status) == 200 <= status /\ status <= 299

\* payload.sections.slice(0, maxSections), [] when sections is no array
sectionListUncut(sections, maxSections) == IF IsArray(sections) THEN sections.v ELSE <<>>
sectionList(sections, maxSections) ==
  IF IsArray(sections) THEN Slice2(sections.v, 0, maxSections) ELSE <<>>

\* fetch rejects: the catch of handle answers 500
FetchReject ==
  /\ pc = "fetch"
  /\ upstream.kind = "reject"
  /\ Respond(Response(500, JsonType, req.origin, ErrorBody("fetch failed")))
  /\ UNCHANGED <<inputVars, iresp, loc, sent, poolVars>>

\* the raw proxy: if (raw) return new Response(await wres.text(), {status: wres.status})
RawReply ==
  /\ pc = "fetch"
  /\ upstream.kind = "response"
  /\ loc.raw
  /\ Respond(Response(upstream.status, JsonType, req.origin, Proxied(upstream.body)))
  /\ UNCHANGED <<inputVars, iresp, loc, sent, poolVars>>

\* if (!wres.ok) return new Response(await wres.text(), {status: wres.status})
UpstreamFailure ==
  /\ pc = "fetch"
  /\ upstream.kind = "response"
  /\ ~loc.raw
  /\ ~IsOk(upstream.status)
  /\ Respond(Response(upstream.status, JsonType, req.origin, Proxied(upstream.body)))
  /\ UNCHANGED <<inputVars, iresp, loc, sent, poolVars>>

\* the rest of handle up to `await pMap(...)`: the payload, the list, the
\* storage binding, the job id, and the synchronous start of pMap's runners
Persist ==
  /\ pc = "fetch"
  /\ upstream.kind = "response"
  /\ ~loc.raw
  /\ IsOk(upstream.status)
  /\ IF ~upstream.body.json
     THEN Respond(Response(500, JsonType, req.origin, ErrorBody("Unexpected token")))
          /\ UNCHANGED <<loc, poolVars>>
     ELSE IF ~bucket
     THEN Respond(Response(500, JsonType, req.origin,
                           ErrorBody("Storage binding CLOUD_FILES is missing")))
          /\ UNCHANGED <<loc, poolVars>>
     ELSE \E jobId \in JobIds :
       LET list == sectionList(upstream.body.sections, loc.maxSections)
           c == loc @@ [jobId |-> jobId, list |-> list, meta |-> upstream.body.meta,
                        siteOrigin |-> publicOrigin(env, req),
                        absolute |-> env.ABSOLUTE_IMAGE_URLS = S_one]
           n == runnerCount(UPLOAD_CONCURRENCY(env).v, Len(list))
           P == startRunners(c, list, n, 1,
                             [i |-> 0, runners |-> [k \in 1..n |-> Done], puts |-> puts])
       IN /\ loc' = c
          /\ IF n < 0
             THEN Respond(Response(500, JsonType, req.origin,
                                   ErrorBody("Invalid array length")))
                  /\ UNCHANGED poolVars
             ELSE /\ pc' = "pmap"
                  /\ ret' = [x \in 1..Len(list) |-> Hole]
                  /\ i' = P.i
                  /\ runners' = P.runners
                  /\ puts' = P.puts
                  /\ UNCHANGED <<resp, store>>
  /\ UNCHANGED <<inputVars, iresp, sent>>

\* ------------------------------------------------------------ the pool's steps
\* the continuation of runner k after `await worker(...)`: ret[cur] = out, then
\* the loop again
Resume(k) ==
  /\ runners[k].st = "returned"
  /\ LET P == runnerLoop(loc, loc.list, [i |-> i, runners |-> runners, puts |-> puts], k)
     IN /\ ret' = [ret EXCEPT ![runners[k].cur + 1] = runners[k].out]
        /\ i' = P.i
        /\ runners' = P.runners
        /\ puts' = P.puts
  /\ UNCHANGED <<inputVars, iresp, pc, resp, loc, sent, store>>

\* the bucket.put runner k awaits resolves: the object is stored, and the
\* worker runs on to its next put or to its return
PutResolve(k) ==
  /\ runners[k].st = "put"
  /\ LET r == runners[k]
         w == workerAfterPut(loc, loc.list[r.cur + 1], r.cur, r)
     IN /\ store' = (r.key :> [body |-> r.bytes, contentType |-> S_imageJpeg]) @@ store
        /\ runners' = [runners EXCEPT ![k] = [cur |-> r.cur] @@ w]
        /\ puts' = IF w.st = "put" THEN Append(puts, PutRecord(w, r.cur)) ELSE puts
  /\ UNCHANGED <<inputVars, iresp, pc, resp, loc, sent, i, ret>>

\* the bucket.put runner k awaits rejects: the worker, the runner and
\* Promise.all reject; the catch of handle answers 500 unless handle has
\* already returned
PutReject(k) ==
  /\ runners[k].st = "put"
  /\ runners' = [runners EXCEPT ![k] = Failed]
  /\ IF pc = "pmap"
     THEN Respond(Response(500, JsonType, req.origin, ErrorBody("put failed")))
     ELSE UNCHANGED <<pc, resp>>
  /\ UNCHANGED <<inputVars, iresp, loc, sent, i, ret, puts, store>>

\* JSON.stringify of the array: an empty slot is null
stringify(a) == [x \in DOMAIN a |-> IF a[x] = Hole THEN Null ELSE a[x]]

\* Promise.all(runners) resolves; handle answers { jobId, origin, sections, meta }
PMapResolve ==
  /\ pc = "pmap"
  /\ \A k \in DOMAIN runners : runners[k].st = "done"
  /\ Respond(Response(200, JsonType, req.origin,
                      [kind |-> "result", jobId |-> loc.jobId, origin |-> loc.origin,
                       sections |-> stringify(ret),
                       meta |-> Or(loc.meta, [t |-> "object"])]))
  /\ UNCHANGED <<inputVars, iresp, loc, sent, poolVars>>

\* ------------------------------------------------------------ the image endpoint
NoImageRequest == [t |-> "none"]

\* parts.join("/")
RECURSIVE Join(_)
Join(parts) ==
  IF parts = <<>> THEN <<>>
  ELSE IF Len(parts) = 1 THEN Head(parts)
  ELSE Head(parts) \o <<"/">> \o Join(Tail(parts))

\* const parts = Array.isArray(raw) ? raw : raw ? [raw] : []; parts.join("/")
keyOf(raw) ==
  IF raw.t = "array" THEN Join(raw.v)
  ELSE IF raw.t = "string" /\ raw.v # <<>> THEN raw.v
  ELSE <<>>

\* obj.httpMetadata?.contentType || "image/webp"
contentTypeFixed(obj) == S_imageWebp
contentTypeOf(obj) ==
  IF "contentType" \in DOMAIN obj /\ obj.contentType # <<>> THEN obj.contentType
  ELSE S_imageWebp

ImageResponse(status, body, ctype) == [status |-> status, body |-> body, ctype |-> ctype]
TextPlain == "text/plain;charset=UTF-8"
CacheForever == "public, max-age=31536000, immutable"

\* export async function GET(_req, ctx) of the image route, its bucket.get
\* resolving with the object stored at that moment
ImageGET ==
  /\ ireq # NoImageRequest
  /\ iresp = <<>>
  /\ LET key == keyOf(ireq)
     IN iresp' =
          IF key = <<>> THEN <<ImageResponse(400, "Bad Request", TextPlain)>>
          ELSE IF ~bucket THEN <<[status |-> "thrown"]>>
          ELSE IF key \notin DOMAIN store THEN <<ImageResponse(404, "Not found", TextPlain)>>
          ELSE <<ImageResponse(200, store[key].body, contentTypeOf(store[key]))
                   @@ [cacheControl |-> CacheForever]>>
  /\ UNCHANGED <<inputVars, pc, resp, loc, sent, poolVars>>

\* ------------------------------------------------------------ inputs
DefaultEnv ==
  [WORKER_MAX |-> <<>>, MAX_SECTIONS |-> <<>>, UPLOAD_CONCURRENCY |-> <<>>,
   ABSOLUTE_IMAGE_URLS |-> <<>>, PUBLIC_SITE_ORIGIN |-> <<>>]

AllowedOrigin == <<"h", "t", "t", "p", "s", ":", "/", "/", "a", "p", "p", ".", "t", "e", "s", "t">>
OtherOrigin == <<"h", "t", "t", "p", "s", ":", "/", "/", "e", "v", "i", "l", ".", "t", "e", "s", "t">>
OriginHeaders == {Undef, Str(AllowedOrigin), Str(OtherOrigin)}

D_bare == <<"e", "x", ".", "c", "o", "m">>
D_full == <<"h", "t", "t", "p", ":", "/", "/", "a", ".", "i", "o", ":", "8", "0", "/", "p">>
D_httpx == <<"h", "t", "t", "p", "x", ":", "/", "/", "a">>
D_space == <<"a", " ", "b">>
D_httpbin == <<"h", "t", "t", "p", "b", "i", "n", ".", "o", "r", "g">>
GoodDomains == {Str(D_bare), Str(D_full)}
BadDomains == {Str(D_httpx), Str(D_space), Str(D_httpbin)}
DomainInputs == {Undef, Str(<<>>)} \cup GoodDomains \cup BadDomains

Request(method, origin, query, body) ==
  [method |-> method, origin |-> origin, query |-> query, body |-> body,
   xfProto |-> Undef, xfHost |-> Undef, host |-> <<"s", "i", "t", "e", ".", "i", "o">>]
NoBody == [t |-> "invalid"]
JsonBody(domain) == [t |-> "object", domain |-> domain]
DomainParam(d) == IF d = Undef THEN <<>> ELSE <<<<S_domain, d.v>>>>
SimpleGet(extra) == Request("GET", Undef, DomainParam(Str(D_bare)) \o extra, NoBody)

\* data URLs: two that decode, one without a comma
ImgA == Str(<<"d", ":", ",", "Q", "Q", "=", "=">>)
ImgB == Str(<<"d", ":", ",", "Q", "g", "=", "=">>)
ImgBad == Str(<<"o", "o", "p", "s">>)

Section(id, image, images) ==
  [id |-> id, role |-> Str(<<"h", "e", "r", "o">>), bbox |-> Arr(<<0, 0, 8, 6, 9>>),
   image |-> image, images |-> images, image_b64 |-> Undef, images_b64 |-> Undef,
   confidence |-> Num(0), label |-> Undef]
Id_a == Str(<<"a">>)
Id_section1 == Str(S_section \o <<"1">>)
Plain == Section(Undef, Undef, Undef)
SectionSet ==
  { Section(Undef, ImgB, Undef),
    Section(Id_a, ImgA, Undef),
    Section(Id_section1, ImgA, Undef),
    Section(Undef, ImgBad, Undef),
    Section(Id_a, Undef, Arr(<<>>)),
    Section(Undef, Undef, Arr(<<ImgA, ImgBad, ImgB>>)),
    Section(Id_a, Undef, Arr(<<ImgBad, Undef>>)) }

RECURSIVE ListsUpTo(_, _)
ListsUpTo(S, n) ==
  IF n = 0 THEN {<<>>}
  ELSE ListsUpTo(S, n - 1)
         \cup {Append(l, x) : l \in {m \in ListsUpTo(S, n - 1) : Len(m) = n - 1}, x \in S}

MetaObj == [t |-> "object", pages |-> 1]
OkReply(sections, meta) ==
  [kind |-> "response", status |-> 200,
   body |-> [json |-> TRUE, sections |-> sections, meta |-> meta]]
TextReply(status) ==
  [kind |-> "response", status |-> status, body |-> [json |-> FALSE, text |-> "upstream says"]]
NoReply == [kind |-> "reject"]

\* the CORS gate and the normalizer: every verb, Origin header and domain
GateInputs ==
  /\ env = DefaultEnv
  /\ bucket \in BOOLEAN
  /\ \E o \in OriginHeaders, extra \in {<<>>, <<<<S_ping, S_one>>>>, <<<<S_raw, S_one>>>>} :
       \/ \E d \in DomainInputs : req = Request("GET", o, DomainParam(d) \o extra, NoBody)
       \/ \E d \in DomainInputs : req = Request("POST", o, extra, JsonBody(d))
       \/ req = Request("POST", o, extra, JsonBody(Num(5)))
       \/ req = Request("POST", o, extra, NoBody)
  /\ upstream \in {OkReply(Arr(<<Section(Undef, ImgA, Undef)>>), Undef),
                   TextReply(502), NoReply}

\* the caps: every WORKER_MAX, MAX_SECTIONS and caller max, against lists longer
\* than every cap
EnvNumbers == {<<>>, <<"0">>, <<"2">>, <<"2", "0">>}
MaxInputs ==
  {<<>>, <<<<S_max, <<>>>>>>, <<<<S_max, <<"0">>>>>>, <<<<S_max, <<"3">>>>>>,
   <<<<S_max, <<"5", "0">>>>>>, <<<<S_max, <<"a">>>>>>, <<<<S_max, <<"-", "1">>>>>>,
   <<<<S_max, <<"1">>>>, <<S_max, <<"3">>>>>>}
CapInputs ==
  /\ \E wm \in EnvNumbers, ms \in EnvNumbers :
       env = [DefaultEnv EXCEPT !.WORKER_MAX = wm, !.MAX_SECTIONS = ms]
  /\ bucket = TRUE
  /\ \E m \in MaxInputs : req = SimpleGet(m)
  /\ \E len \in {0, 1, 4, MaxPlain} :
       upstream = OkReply(Arr([x \in 1..len |-> Plain]), MetaObj)

\* the pool: every concurrency against every list of sections, and against
\* longer lists of two kinds of section
RaceSet ==
  { Section(Undef, ImgB, Undef),
    Section(Undef, Undef, Arr(<<ImgA, ImgBad, ImgB>>)) }
ConcInputs == {<<>>, <<"-", "1">>} \cup {NumToStr(n) : n \in 0..MaxConc}
PoolInputs ==
  /\ \E n \in ConcInputs : env = [DefaultEnv EXCEPT !.UPLOAD_CONCURRENCY = n]
  /\ bucket = TRUE
  /\ req = SimpleGet(<<>>)
  /\ \E l \in ListsUpTo(SectionSet, MaxLen) \cup ListsUpTo(RaceSet, MaxRace) :
       upstream = OkReply(Arr(l), Undef)

\* the rest: base64 passthrough, absolute URLs, payloads without a section list,
\* unparsable payloads, raw proxying, forwarded parameters
B64Sections ==
  { Section(Undef, ImgA, Undef),
    [Section(Undef, ImgA, Undef) EXCEPT !.image_b64 = Str(<<"Q">>)],
    [Section(Undef, ImgBad, Undef) EXCEPT !.image_b64 = Str(<<"Q">>),
                                          !.images_b64 = Arr(<<Str(<<"Q">>), Num(1)>>)],
    Section(Undef, Undef, Arr(<<ImgA, ImgBad>>)),
    [Section(Undef, Undef, Arr(<<ImgA>>)) EXCEPT !.images_b64 = Arr(<<Str(<<"Q">>), Num(1)>>)] }
OtherInputs ==
  \/ /\ env = DefaultEnv
     /\ bucket = TRUE
     /\ req = SimpleGet(<<<<S_b64, S_one>>>>)
     /\ \E x \in B64Sections : upstream = OkReply(Arr(<<x>>), MetaObj)
  \/ /\ \E po \in {<<>>, <<"h", "t", "t", "p", "s", ":", "/", "/", "c", "d", "n", ".", "i", "o", "/", "/">>} :
          env = [DefaultEnv EXCEPT !.ABSOLUTE_IMAGE_URLS = S_one, !.PUBLIC_SITE_ORIGIN = po]
     /\ bucket = TRUE
     /\ \E xp \in {Undef, Str(S_http)}, xh \in {Undef, Str(<<"p", "u", "b", ".", "i", "o">>)} :
          req = [SimpleGet(<<>>) EXCEPT !.xfProto = xp, !.xfHost = xh]
     /\ upstream = OkReply(Arr(<<Section(Id_a, ImgA, Undef)>>), Undef)
  \/ /\ env = DefaultEnv
     /\ bucket \in BOOLEAN
     /\ \E q \in {<<>>, <<<<S_raw, S_one>>>>, <<<<S_raw, <<"0">>>>>>,
                  <<<<S_vw, <<"8">>>>, <<S_url, <<"x">>>>, <<S_vw, <<"9">>>>>>,
                  <<<<S_vw, <<"8">>>>, <<S_domain, <<"b">>>>, <<S_b64, <<>>>>>>} :
          \/ req = SimpleGet(q)
          \/ req = Request("POST", Str(AllowedOrigin), q, JsonBody(Str(D_full)))
     /\ upstream \in {OkReply(Undef, Undef), OkReply(Arr(<<Section(Id_a, ImgA, Undef)>>), MetaObj),
                      [OkReply(Arr(<<Section(Id_a, ImgA, Undef)>>), MetaObj) EXCEPT !.status = 500],
                      TextReply(200), TextReply(300), TextReply(404), NoReply}

\* the image endpoint: a bucket that already holds objects of other writers
\* (one under a key this job writes, one stored without a content type), and
\* an image request arriving at any moment of the scrape
K_section0 == imageKey(<<"j", "1">>, S_section \o <<"0">>)
K_tile == tileKey(<<"j", "1">>, <<"a">>, 0)
K_png == <<"o", "l", "d", "/", "a", ".", "p", "n", "g">>
K_bare == <<"o", "l", "d", "/", "b">>
K_never == <<"x">>
S_imagePng == <<"i", "m", "a", "g", "e", "/", "p", "n", "g">>
OldObjects ==
  (K_png :> [body |-> <<1, 2>>, contentType |-> S_imagePng])
    @@ (K_section0 :> [body |-> <<>>, contentType |-> S_imagePng])
    @@ (K_bare :> [body |-> <<3>>])
ImageInputs ==
  /\ env = DefaultEnv
  /\ bucket \in BOOLEAN
  /\ req = SimpleGet(<<>>)
  /\ upstream = OkReply(Arr(<<Section(Undef, ImgB, Undef), Section(Id_a, Undef, Arr(<<ImgA>>))>>),
                        Undef)
  /\ store = EmptyObj \/ store = OldObjects
  /\ \/ ireq = Undef
     \/ ireq = Str(<<>>)
     \/ ireq = Str(K_never)
     \/ ireq = Arr(<<>>)
     \/ \E k \in {K_section0, K_tile, K_png, K_bare} : ireq = Arr(Split(k, "/"))

Init ==
  /\ \/ /\ GateInputs \/ CapInputs \/ PoolInputs \/ OtherInputs
        /\ store = EmptyObj
        /\ ireq = NoImageRequest
     \/ ImageInputs
  /\ pc = "start"
  /\ resp = <<>>
  /\ loc = EmptyObj
  /\ sent = <<>>
  /\ i = 0
  /\ ret = <<>>
  /\ runners = <<>>
  /\ puts = <<>>
  /\ iresp = <<>>

Next ==
  \/ GET
  \/ POST
  \/ FetchReject
  \/ RawReply
  \/ UpstreamFailure
  \/ Persist
  \/ \E k \in DOMAIN runners : Resume(k)
  \/ \E k \in DOMAIN runners : PutResolve(k)
  \/ \E k \in DOMAIN runners : PutReject(k)
  \/ PMapResolve
  \/ ImageGET

Spec == Init /\ [][Next]_vars

\* ------------------------------------------------------------ properties
Handled == pc \in {"responded", "thrown"}
Responded == pc = "responded"
Succeeded == Responded /\ resp[1].status = 200 /\ resp[1].body.kind = "result"
PoolStarted == "list" \in DOMAIN loc
\* the configured concurrency N
N == UPLOAD_CONCURRENCY(env).v
\* the upstream section list and its length L
UpstreamSections ==
  IF upstream.kind = "response" /\ upstream.body.json /\ IsArray(upstream.body.sections)
  THEN upstream.body.sections.v ELSE <<>>
L == Len(UpstreamSections)
\* the runners whose claimed section is not yet stored in ret, and those
\* awaiting a bucket.put
Busy == {k \in DOMAIN runners : runners[k].st \in {"put", "returned"}}
Uploading == {k \in DOMAIN runners : runners[k].st = "put"}

\* C1: with a concurrency limit N >= 1, at every instant of pMap at most N
\* section workers are in flight, and so at most N bucket.put uploads.
C1_AtMostNInFlight ==
  N >= 1 => Cardinality(Busy) <= N /\ Cardinality(Uploading) <= N

\* C1's case: the limit binds (two uploads in flight under N = 2 while a third
\* section still waits to be claimed)
C1_Witness ==
  /\ PoolStarted
  /\ N = 2
  /\ Cardinality(Uploading) = 2
  /\ i < Len(loc.list)

\* the out the worker of section idx returns when its puts resolve
RECURSIVE workerResult(_, _, _, _)
workerResult(c, s, idx, w) ==
  IF w.st = "returned" THEN w.out ELSE workerResult(c, s, idx, workerAfterPut(c, s, idx, w))
ExpectedOut(idx) == workerResult(loc, UpstreamSections[idx + 1], idx,
                                 workerStart(loc, UpstreamSections[idx + 1], idx))

\* C2: in a successful response the sections array has length min(L, cap) and
\* sections[i] is the result of processing input section i, for every
\* configured concurrency N.
C2_IndexStable ==
  Succeeded =>
    /\ Len(resp[1].body.sections) = Min(L, loc.maxSections)
    /\ \A idx \in 0..(Len(resp[1].body.sections) - 1) :
         resp[1].body.sections[idx + 1] = ExpectedOut(idx)

\* C3: within one request no storage key is written by bucket.put more than
\* once (and so none is shared between jobs).
C3_NoKeyWrittenTwice ==
  \A p, q \in DOMAIN puts : p # q => puts[p].key # puts[q].key

\* the caller's max parameter (Null when absent), the configured default and
\* the configured hard cap
CallerMax == Get(req.query, S_max)
MaxGivenOnce == Cardinality({p \in DOMAIN req.query : req.query[p][1] = S_max}) <= 1
DefaultMax == DEFAULT_WORKER_MAX(env).v
HardCap == DEFAULT_MAX_SECTIONS(env).v
Fetching == sent # <<>>

\* C4 as stated: the effective cap is the smaller of (the caller's max clamped
\* into 1..12, or the default when absent) and the hard cap, and that one value
\* is both the max sent upstream and the number of sections persisted.
C4_StatedCap ==
  IF IsString(CallerMax) /\ Number(CallerMax.v).t = "number" /\ CallerMax.v # <<>>
  THEN Min(Max(ClampLo, Min(ClampHi, Number(CallerMax.v).v)), HardCap)
  ELSE Min(DefaultMax, HardCap)
C4_WorkerMax ==
  LET n == IF IsString(CallerMax) THEN Number(CallerMax.v) ELSE NaN
  IN Max(ClampLo, Min(ClampHi, IF n.t = "number" /\ n.v # 0 THEN n.v ELSE DefaultMax))
C4_Cap ==
  LET hard == IF env.MAX_SECTIONS # <<>> \/ DefaultMax # 0 THEN HardCap ELSE C4_WorkerMax
  IN Min(C4_WorkerMax, Max(ClampLo, hard))
OriginListed == IsString(req.origin) /\ Includes(ORIGINS, req.origin.v)

\* C5: a POST whose Origin is missing or not listed yields 403 with
\* access-control-allow-origin "null" before any upstream request or storage
\* write; a POST from a listed origin gets its origin echoed back in every
\* response.
C5_PostGate ==
  req.method = "POST" /\ Handled =>
    IF OriginListed
    THEN Responded /\ resp[1].acao = req.origin.v
    ELSE Responded /\ resp[1].status = 403 /\ resp[1].acao = S_null
         /\ sent = <<>> /\ puts = <<>>

\* the domain submitted: the query's for GET, the body's for POST
Submitted ==
  IF req.method = "GET" THEN Get(req.query, S_domain)
  ELSE IF req.body.t = "object" THEN req.body.domain ELSE Undef
DomainMissing == ~Truthy(Submitted)
DomainInvalid == Truthy(Submitted) /\ (~IsString(Submitted) \/ ~norm(Submitted.v).ok)

\* C6: for every GET and every allowed-origin POST, a missing domain and a
\* domain on which the normalizer fails both produce a 400 response, with no
\* upstream request and no storage write.
C6_BadDomainIs400 ==
  /\ Handled
  /\ req.method = "GET" \/ OriginListed
  /\ DomainMissing \/ DomainInvalid
  => Responded /\ resp[1].status = 400 /\ sent = <<>> /\ puts = <<>>

\* an inline image the decoder takes: a string with a comma
WellFormed(d) == IsString(d) /\ \E p \in 1..Len(d.v) : d.v[p] = ","
Tiled(s) == IsArray(s.images) /\ s.images.v # <<>>
\* a section with nothing to decode: a single image malformed or missing, or a
\* tile list in which every tile is malformed
NothingDecodes(s) ==
  IF Tiled(s) THEN \A p \in 1..Len(s.images.v) : ~WellFormed(s.images.v[p])
  ELSE ~WellFormed(s.image)
KeepsMeta(out, s) ==
  /\ Truthy(s.id) => "id" \in DOMAIN out /\ out.id = s.id.v
  /\ Truthy(s.role) => "role" \in DOMAIN out /\ out.role = s.role.v
  /\ IsArray(s.bbox) => "bbox" \in DOMAIN out
  /\ s.confidence.t = "number" => "confidence" \in DOMAIN out /\ out.confidence = s.confidence.v
  /\ Truthy(s.label) => "label" \in DOMAIN out /\ out.label = s.label.v

\* C7: for every section whose inline image data is malformed or missing, the
\* output section at that index has no image field and no images field and
\* keeps the whitelisted metadata.
C7_MalformedIsMetadataOnly ==
  Succeeded =>
    \A x \in 1..Len(resp[1].body.sections) :
      NothingDecodes(loc.list[x]) /\ resp[1].body.sections[x] # Null =>
        /\ "image" \notin DOMAIN resp[1].body.sections[x]
        /\ "images" \notin DOMAIN resp[1].body.sections[x]
        /\ KeepsMeta(resp[1].body.sections[x], loc.list[x])

\* the positions (from 0) of the well-formed tiles, in input order
RECURSIVE GoodTilesFrom(_, _)
GoodTilesFrom(imgs, t) ==
  IF t >= Len(imgs) THEN <<>>
  ELSE (IF WellFormed(imgs[t + 1]) THEN <<t>> ELSE <<>>) \o GoodTilesFrom(imgs, t + 1)
SectionId(s, idx) ==
  IF IsString(s.id) /\ s.id.v # <<>> THEN s.id.v ELSE S_section \o NumToStr(idx)
TwoDigits(t) == <<DigitChars[(t \div 10) + 1], DigitChars[(t % 10) + 1]>>
\* jobs/<jobId>/<sectionId>/tile_<two-digit position>.jpg
StatedTileKey(idx, t) ==
  S_jobs \o loc.jobId \o <<"/">> \o SectionId(loc.list[idx + 1], idx)
    \o <<"/", "t", "i", "l", "e", "_">> \o TwoDigits(t) \o <<".", "j", "p", "g">>
EndsWith(s, e) == Len(s) >= Len(e) /\ SubSeq(s, Len(s) - Len(e) + 1, Len(s)) = e

\* C8: the images list of a tiled section holds one URL per well-formed tile,
\* in input order, each naming the key jobs/<jobId>/<sectionId>/tile_<two-digit
\* original position>.jpg under which that tile's bytes were put, and no put is
\* issued for a skipped tile.
C8_TilesKeptInOrder ==
  PoolStarted =>
    /\ \A p \in DOMAIN puts :
         puts[p].t # NoTile => WellFormed(loc.list[puts[p].idx + 1].images.v[puts[p].t + 1])
    /\ \A x \in DOMAIN ret :
         ret[x] # Hole /\ Tiled(loc.list[x]) =>
           LET good == GoodTilesFrom(loc.list[x].images.v, 0)
           IN /\ "images" \in DOMAIN ret[x]
              /\ Len(ret[x].images) = Len(good)
              /\ \A j \in 1..Len(good) :
                   /\ EndsWith(ret[x].images[j], S_apiImages \o StatedTileKey(x - 1, good[j]))
                   /\ \E p \in DOMAIN puts :
                        /\ puts[p].key = StatedTileKey(x - 1, good[j])
                        /\ puts[p].idx = x - 1
                        /\ puts[p].bytes = safeDataUrlToBytes(loc.list[x].images.v[good[j] + 1]).v

\* C8's case: a tile list whose middle tile is malformed has been processed
C8_Witness ==
  /\ PoolStarted
  /\ \E x \in DOMAIN ret :
       /\ ret[x] # Hole
       /\ Tiled(loc.list[x])
       /\ GoodTilesFrom(loc.list[x].images.v, 0) = <<0, 2>>
       /\ Len(ret[x].images) = 2

\* C9: a failing storage write for one item is isolated: it produces no
\* failing top-level response, and every other section is still claimed.
PutFailed == \E k \in DOMAIN runners : runners[k].st = "failed"
C9_ItemFailureIsolated ==
  PutFailed =>
    /\ ~(Responded /\ resp[1].status >= 400)
    /\ (\A k \in DOMAIN runners : runners[k].st \in {"done", "failed"}) => i = Len(loc.list)

\* C10: with raw=1 the response is the upstream status and body unchanged, no
\* job id is generated, no bucket.put is issued and storage is left unchanged,
\* whatever the upstream status and whether or not the binding exists.
RawRequested == Get(req.query, S_raw) = Str(S_one)
C10_RawBypassesPersister ==
  RawRequested /\ Fetching =>
    /\ "jobId" \notin DOMAIN loc
    /\ puts = <<>>
    /\ store = EmptyObj
    /\ Responded /\ upstream.kind = "response" =>
         resp[1].status = upstream.status /\ resp[1].body = Proxied(upstream.body)

\* C10's case: a raw request answered from a successful upstream reply that
\* carries a section, without a storage binding
C10_Witness ==
  /\ RawRequested
  /\ Responded
  /\ upstream.kind = "response"
  /\ upstream.status = 200
  /\ L > 0
  /\ ~bucket
  /\ resp[1].status = 200

\* C11: for every non-success upstream response the client receives exactly
\* the upstream status and body, and nothing is written to storage (no
\* bucket.put is issued, no job is started) for that request.
UpstreamFailed == upstream.kind = "response" /\ ~(200 <= upstream.status /\ upstream.status <= 299)
C11_FailurePassesThrough ==
  UpstreamFailed /\ Fetching =>
    /\ puts = <<>>
    /\ store = EmptyObj
    /\ ~PoolStarted
    /\ Responded =>
         resp[1].status = upstream.status /\ resp[1].body = Proxied(upstream.body)

\* C11's case: a status 500 reply whose body is a payload with a section,
\* answered to a caller who did not ask for raw, with the binding present
C11_Witness ==
  /\ UpstreamFailed
  /\ Responded
  /\ ~RawRequested
  /\ bucket
  /\ upstream.status = 500
  /\ upstream.body.json
  /\ L > 0
  /\ resp[1].status = 500

\* the query of the upstream request
WorkerParams == sent[1]
Carries(w, pair) == \E x \in DOMAIN w : w[x] = pair
CallerParams == {req.query[p] : p \in DOMAIN req.query}

\* C12: the upstream request carries url equal to the normalized origin of the
\* submitted domain, carries every caller parameter other than domain with
\* its name and value unchanged, and never carries the domain parameter.
C12_ForwardedVerbatim ==
  Fetching =>
    /\ Get(WorkerParams, S_url) = Str(norm(Submitted.v).origin)
    /\ \A pair \in CallerParams : pair[1] # S_domain => Carries(WorkerParams, pair)
    /\ \A x \in DOMAIN WorkerParams : WorkerParams[x][1] # S_domain

\* the key an image request asks for, and whether the bucket holds an object
\* put under it with a content type
ImageKey == keyOf(ireq)
ImageAnswered == iresp = <<>> /\ iresp' # <<>>
PutWithType(K) == K \in DOMAIN store /\ "contentType" \in DOMAIN store[K]

\* C13: an image request for a key K under which an object was put with
\* bytes B and content type T is answered with exactly B and content type T
\* (the latest put counts), and a request for a key never written is
\* answered 404.
C13_ImageRoundTrip ==
  [][ImageAnswered /\ bucket /\ ImageKey # <<>> =>
       /\ PutWithType(ImageKey) =>
            /\ iresp'[1].status = 200
            /\ iresp'[1].body = store[ImageKey].body
            /\ iresp'[1].ctype = store[ImageKey].contentType
       /\ ImageKey \notin DOMAIN store => iresp'[1].status = 404]_vars

\* C13's case: the image of section 0 is asked for after the scrape has put
\* it over an older object of another content type, and comes back as put
C13_Witness ==
  /\ bucket
  /\ iresp # <<>>
  /\ ImageKey = K_section0
  /\ K_png \in DOMAIN store
  /\ iresp[1].status = 200
  /\ iresp[1].body = <<66>>
  /\ iresp[1].ctype = S_imageJpeg

\* the indices claimed so far are 0..i-1; an index is held by the runners
\* that claimed it and have not yet stored its result
Holders(idx) == {k \in Busy : runners[k].cur = idx}
Processed(idx) == idx + 1 \in DOMAIN ret /\ ret[idx + 1] # Hole
ClaimedOnce ==
  \A idx \in 0..(i - 1) :
    IF Processed(idx) THEN Holders(idx) = {} ELSE Cardinality(Holders(idx)) = 1

\* C14: for every list length L >= 0 and every configured N, min(N, L) runners
\* each claim the next unclaimed index and process it before claiming another:
\* every index is claimed by exactly one runner exactly once, and when no
\* upload fails pMap returns with every index of the list processed.
C14_EveryIndexProcessedOnce ==
  PoolStarted /\ ~PutFailed =>
    /\ Cardinality(DOMAIN runners) = Min(N, Len(loc.list))
    /\ ClaimedOnce
    /\ Handled => Succeeded /\ \A idx \in 0..(Len(loc.list) - 1) : Processed(idx)

\* C15: once handle has produced its response for a request, be it the
\* success or the 500 that follows a failed storage write, no further
\* bucket.put is issued on behalf of that request.
C15_NoPutAfterResponse == [][Handled => puts' = puts]_vars

====
